---- MODULE Spec2Model ----
(***************************************************************************)
(* Token issuance and verification (app/core/security.py), the request     *)
(* time resolution of the current user (app/core/deps.py) and the request  *)
(* scoped database session (app/core/database.py).                         *)
(*                                                                         *)
(* Time is counted in ticks; TicksPerSec ticks make one second.  A         *)
(* datetime is a number of ticks since the epoch (UTC), a JWT NumericDate  *)
(* is a number of whole seconds.  An optional value is a sequence of       *)
(* length 0 (None) or 1.                                                   *)
(***************************************************************************)
EXTENDS Integers, Sequences, FiniteSets

VARIABLES clock, advances, tz, secretSource, accessMinutes, refreshDays,
          fences, databaseUrl, apiPrefix, engine, issued, last, pair, sess

vars == <<clock, advances, tz, secretSource, accessMinutes, refreshDays,
          fences, databaseUrl, apiPrefix, engine, issued, last, pair, sess>>

env == <<tz, secretSource, accessMinutes, refreshDays,
         fences, databaseUrl, apiPrefix, engine>>

-----------------------------------------------------------------------------
(* Bounds of the model *)

TicksPerSec == 2
MaxAdvances == 2
MaxRequests == 2

\* A NumericDate a caller may put under exp or iat in its own claims.
CallerTime == 5

(* Program constants *)

ACCESS_TOKEN_EXPIRE_MINUTES == 30
REFRESH_TOKEN_EXPIRE_DAYS == 7
HTTP_200_OK == 200
HTTP_401_UNAUTHORIZED == 401
HTTP_403_FORBIDDEN == 403
HTTP_500_INTERNAL_SERVER_ERROR == 500

SecondsPerMinute == 60
SecondsPerDay == 86400

None == <<>>
Some(x) == <<x>>

Absent == "<absent>"

-----------------------------------------------------------------------------
(* Process environment *)

\* How the deployment supplies SECRET_KEY.
SecretSources == {"env", "dotenv", "unset"}

\* utcoffset of the process's local time zone, in seconds.
TzOffsets == {0 - 18000, 0, 3600}

AccessMinutesChoices == {ACCESS_TOKEN_EXPIRE_MINUTES}
RefreshDaysChoices == {REFRESH_TOKEN_EXPIRE_DAYS}

DeployedSecret == "deployed-secret"
DefaultSecret == "your-secret-key-change-in-production"

\* security.SECRET_KEY: os.getenv reads the process environment only.
SECRET_KEY == IF secretSource = "env" THEN DeployedSecret ELSE DefaultSecret

\* security.ALGORITHM
ALGORITHM == "HS256"

\* config.py and database.py begin and end with markdown fence lines
\* ("```python", "```"), which are no Python: as shipped ("kept") importing
\* either raises SyntaxError.  "stripped" is the text between the fences.
Fences == {"kept", "stripped"}

\* Whether the deployment supplies DATABASE_URL (environment or .env).
DatabaseUrls == {"set", "unset"}

\* Whether the .env file has a line API_V1_STR=...: Settings declares no
\* such field, and with extra = "allow" only the .env file adds attributes.
ApiPrefixes == {"dotenv", "unset"}

\* `settings = Settings()` succeeded, so app.core.config can be imported:
\* the file parses and both required fields, SECRET_KEY and DATABASE_URL,
\* are supplied.  pydantic-settings reads the environment, then .env.
SettingsLoaded ==
    /\ fences = "stripped"
    /\ secretSource \in {"env", "dotenv"}
    /\ databaseUrl = "set"
settings_SECRET_KEY == DeployedSecret

\* app.core.deps can be imported: it imports settings and reads
\* settings.API_V1_STR at line 15.
DepsImported == SettingsLoaded /\ apiPrefix = "dotenv"

\* What create_async_engine is at the import of database.py: SQLAlchemy's
\* ("sqlalchemy"), which takes a str or a URL and raises ArgumentError for
\* anything else, or a stand-in that takes any object ("stand_in").
Engines == {"sqlalchemy", "stand_in"}

\* settings.DATABASE_URL is a pydantic PostgresDsn object, which is no str.
DATABASE_URL_is_str == FALSE

\* create_async_engine(settings.DATABASE_URL, ...) returns an engine.
engine_created == engine = "stand_in" \/ DATABASE_URL_is_str

\* app.core.database can be imported: its own file parses, it imports
\* settings, and the engine it creates at import is created.
DatabaseImported ==
    /\ fences = "stripped"
    /\ SettingsLoaded
    /\ engine_created

-----------------------------------------------------------------------------
(* Claims, payloads and tokens *)

\* sub values: decimal strings, a non-numeric string, and "#7", which stands
\* for the JSON number 7 (a sub that is not a string).
SubStrings == {"1", "2", "3", "0", "-1", "abc"}
NonStringSubs == {"#7"}

mkClaims(s, ty, e, i, r) == [sub |-> s, type |-> ty, exp |-> e, iat |-> i, role |-> r]

\* The claim sets callers pass as `data`.
SubjectClaimSets ==
    { mkClaims(s, Absent, None, None, Absent) : s \in SubStrings \cup NonStringSubs \cup {Absent} }

\* Claim sets that also carry the keys the service sets itself.
ClaimSets ==
    { mkClaims("1", ty, None, None, Absent) : ty \in {Absent, "access", "refresh"} }
    \cup { mkClaims("1", Absent, Some(CallerTime), Some(CallerTime), Absent),
           mkClaims("1", Absent, None, None, "admin") }

\* expires_delta arguments, in ticks: None, timedelta(0), half a second, ...
Deltas == {None, Some(0), Some(1), Some(TicksPerSec)}
DepsDeltas == {None, Some(TicksPerSec)}

\* bool(expires_delta): None and timedelta(0) are falsy.
Truthy(delta) == delta # None /\ delta[1] # 0

\* timegm(dt.utctimetuple()): whole seconds, the fraction dropped.
Timestamp(dt) == dt \div TicksPerSec

\* datetime.fromtimestamp(ts): the naive LOCAL datetime of ts, in ticks.
FromTimestamp(ts) == (ts + tz) * TicksPerSec

NoToken == [kind |-> "none"]
EmptyToken == [kind |-> "empty"]
GarbageToken == [kind |-> "garbage"]

\* jose.jwt.encode: datetime values of exp and iat become NumericDates; the
\* signature is modelled by the key and algorithm that produced it.
jwt_encode(claims, key, alg) ==
    [kind |-> "jwt", key |-> key, alg |-> alg,
     payload |-> [claims EXCEPT
                    !.exp = IF claims.exp = None THEN None
                            ELSE Some(Timestamp(claims.exp[1])),
                    !.iat = IF claims.iat = None THEN None
                            ELSE Some(Timestamp(claims.iat[1]))]]

\* jose.jwt.decode(token, key, algorithms=[alg]) at datetime `now`:
\* TRUE iff no JWTError is raised.
jwt_decode_ok(token, key, alg, now) ==
    /\ token.kind = "jwt"
    /\ token.alg = alg
    /\ token.key = key
    /\ (token.payload.exp # None => ~(token.payload.exp[1] < Timestamp(now)))
    /\ token.payload.sub \notin NonStringSubs

-----------------------------------------------------------------------------
(* security.py *)

Result(st, det, pl) == [status |-> st, detail |-> det, payload |-> pl]
NoPayload == mkClaims(Absent, Absent, None, None, Absent)

\* A merge in which a key the caller supplied wins over the service's type.
update_caller_wins(to_encode, expire, iat, ty) ==
    [to_encode EXCEPT !.exp = Some(expire), !.iat = Some(iat),
                      !.type = IF to_encode.type = Absent THEN ty ELSE to_encode.type]

\* to_encode.update({"exp": ..., "iat": ..., "type": ...})
update(to_encode, expire, iat, ty) ==
    [to_encode EXCEPT !.exp = Some(expire), !.iat = Some(iat), !.type = ty]

\* The function reads the clock twice: datetime.utcnow() is `now` where
\* expire is computed and `now2` where iat is set.
create_access_token(data, expires_delta, now, now2) ==
    LET expire == IF Truthy(expires_delta)
                  THEN now + expires_delta[1]
                  ELSE now + accessMinutes * SecondsPerMinute * TicksPerSec
    IN jwt_encode(update(data, expire, now2, "access"), SECRET_KEY, ALGORITHM)

create_refresh_token(data, expires_delta, now, now2) ==
    LET expire == IF Truthy(expires_delta)
                  THEN now + expires_delta[1]
                  ELSE now + refreshDays * SecondsPerDay * TicksPerSec
    IN jwt_encode(update(data, expire, now2, "refresh"), SECRET_KEY, ALGORITHM)

\* verify_token with the comparison of its expiry check turned around.
verify_token_reversed(token, token_type, now, now2) ==
    IF ~jwt_decode_ok(token, SECRET_KEY, ALGORITHM, now)
    THEN Result(HTTP_401_UNAUTHORIZED, "Could not validate credentials", NoPayload)
    ELSE LET payload == token.payload IN
         IF payload.type # token_type
         THEN Result(HTTP_401_UNAUTHORIZED,
                     "Invalid token type. Expected " \o token_type, NoPayload)
         ELSE IF payload.exp = None
         THEN Result(HTTP_401_UNAUTHORIZED, "Could not validate credentials", NoPayload)
         ELSE IF now2 < FromTimestamp(payload.exp[1])
         THEN Result(HTTP_401_UNAUTHORIZED, "Token has expired", NoPayload)
         ELSE Result(HTTP_200_OK, "", payload)

\* The clock is read twice: inside jwt.decode (`now`) and by the
\* datetime.utcnow() of the expiry check that follows (`now2`).
verify_token(token, token_type, now, now2) ==
    IF ~jwt_decode_ok(token, SECRET_KEY, ALGORITHM, now)
    THEN Result(HTTP_401_UNAUTHORIZED, "Could not validate credentials", NoPayload)
    ELSE LET payload == token.payload IN
         IF payload.type # token_type
         THEN Result(HTTP_401_UNAUTHORIZED,
                     "Invalid token type. Expected " \o token_type, NoPayload)
         ELSE IF payload.exp = None
         THEN Result(HTTP_401_UNAUTHORIZED, "Could not validate credentials", NoPayload)
         ELSE IF now2 > FromTimestamp(payload.exp[1])
         THEN Result(HTTP_401_UNAUTHORIZED, "Token has expired", NoPayload)
         ELSE Result(HTTP_200_OK, "", payload)

\* A pair whose refresh token is made by create_access_token as well.
create_token_pair_access_twice(data, t1, t2, t3, t4) ==
    [access_token |-> create_access_token(data, None, t1, t2),
     refresh_token |-> create_access_token(data, None, t3, t4),
     token_type |-> "bearer"]

\* create_token_pair reads the clock four times: t1 and t2 inside
\* create_access_token, t3 and t4 inside create_refresh_token.
create_token_pair(data, t1, t2, t3, t4) ==
    [access_token |-> create_access_token(data, None, t1, t2),
     refresh_token |-> create_refresh_token(data, None, t3, t4),
     token_type |-> "bearer"]

-----------------------------------------------------------------------------
(* State *)

NoPair == [access_token |-> NoToken, refresh_token |-> NoToken, token_type |-> ""]

\* database.py: one get_async_session generator per request.
Requests == 1 .. MaxRequests

\* pc: where the generator stands; consumer: how the consumer of the yielded
\* session ended; pending: the exception in flight ("error" an Exception,
\* "cancel" a CancelledError or GeneratorExit); tx, closed: the session's
\* transaction and whether a close() has completed; commit: how the commit
\* ended; commits, rollbacks, closes: calls made; raised: what the generator
\* finally raised to its caller; closing: the close() of the context
\* manager is still running as a task of its own.
NoSession == [pc |-> "idle", consumer |-> "none", pending |-> "none",
              tx |-> "none", closed |-> FALSE, commit |-> "none",
              closing |-> FALSE,
              commits |-> 0, rollbacks |-> 0, closes |-> 0, raised |-> "none"]

NoSessions == [r \in Requests |-> NoSession]

NoIssue == [token |-> NoToken, by |-> "none", data |-> NoPayload,
            expires_delta |-> None, at |-> 0]

\* now, now2: the first and the last reading of the clock in the call.
Idle == [op |-> "none", token |-> NoToken, expected |-> "", now |-> 0, now2 |-> 0,
         status |-> HTTP_200_OK, detail |-> "", payload |-> NoPayload,
         user |-> None, lookup |-> None]

Init ==
    /\ clock = 0
    /\ advances = 0
    /\ tz \in TzOffsets
    /\ secretSource \in SecretSources
    /\ fences \in Fences
    /\ databaseUrl \in DatabaseUrls
    /\ apiPrefix \in ApiPrefixes
    /\ engine \in Engines
    /\ accessMinutes \in AccessMinutesChoices
    /\ refreshDays \in RefreshDaysChoices
    /\ issued = NoIssue
    /\ last = Idle
    /\ pair = NoPair
    /\ sess = NoSessions

\* The wall clock moves on.
ClockSteps == {1, TicksPerSec, ACCESS_TOKEN_EXPIRE_MINUTES * SecondsPerMinute * TicksPerSec}
DepsClockSteps == {1, TicksPerSec}

Advance(d) ==
    /\ advances < MaxAdvances
    /\ clock' = clock + d
    /\ advances' = advances + 1
    /\ UNCHANGED <<env, issued, last, pair, sess>>

\* Time that may pass between two readings of the clock in one call, in
\* ticks.
ReadGaps == {0, 1}

\* The clock moved by `gap` while a call was running; every move of the
\* clock, inside a call or between calls, counts against MaxAdvances.
Elapse(gap) ==
    /\ gap > 0 => advances < MaxAdvances
    /\ clock' = clock + gap
    /\ advances' = IF gap > 0 THEN advances + 1 ELSE advances

\* Tokens share no state, so a behaviour follows one issued token.
\* issued.at is the first reading of the clock.
CreateAccessToken(data, delta, gap) ==
    LET t == create_access_token(data, delta, clock, clock + gap) IN
    /\ issued = NoIssue
    /\ issued' = [token |-> t, by |-> "create_access_token", data |-> data,
                  expires_delta |-> delta, at |-> clock]
    /\ last' = [Idle EXCEPT !.op = "create_access_token", !.token = t,
                            !.now = clock, !.now2 = clock + gap]
    /\ Elapse(gap)
    /\ UNCHANGED <<env, pair, sess>>

CreateRefreshToken(data, delta, gap) ==
    LET t == create_refresh_token(data, delta, clock, clock + gap) IN
    /\ issued = NoIssue
    /\ issued' = [token |-> t, by |-> "create_refresh_token", data |-> data,
                  expires_delta |-> delta, at |-> clock]
    /\ last' = [Idle EXCEPT !.op = "create_refresh_token", !.token = t,
                            !.now = clock, !.now2 = clock + gap]
    /\ Elapse(gap)
    /\ UNCHANGED <<env, pair, sess>>

\* Token strings a client can present: the issued one, and strings made
\* without the service (malformed, signed with another key or algorithm, or
\* signed with the service's key but carrying no exp).
Forged ==
    { EmptyToken, GarbageToken,
      [kind |-> "jwt", key |-> "attacker-key", alg |-> ALGORITHM,
       payload |-> mkClaims("1", "access", Some(Timestamp(clock) + 1), None, Absent)],
      [kind |-> "jwt", key |-> SECRET_KEY, alg |-> "HS512",
       payload |-> mkClaims("1", "access", Some(Timestamp(clock) + 1), None, Absent)],
      [kind |-> "jwt", key |-> SECRET_KEY, alg |-> ALGORITHM,
       payload |-> mkClaims("1", "access", None, None, Absent)] }

Presentable ==
    (IF issued.token = NoToken THEN {} ELSE {issued.token})
    \cup (IF pair = NoPair THEN {} ELSE {pair.refresh_token})
    \cup Forged

\* g1, g2, g3: the time between the first and second, second and third,
\* third and fourth reading of the clock in create_token_pair.
CreateTokenPair(data, g1, g2, g3) ==
    LET t2 == clock + g1
        t3 == t2 + g2
        t4 == t3 + g3
        p == create_token_pair(data, clock, t2, t3, t4) IN
    /\ issued = NoIssue
    /\ pair = NoPair
    /\ pair' = p
    /\ issued' = [token |-> p.access_token, by |-> "create_access_token",
                  data |-> data, expires_delta |-> None, at |-> clock]
    /\ last' = [Idle EXCEPT !.op = "create_token_pair", !.token = p.access_token,
                            !.now = clock, !.now2 = t4]
    /\ Elapse(g1 + g2 + g3)
    /\ UNCHANGED <<env, sess>>

\* The time between the two readings of the clock in verify_token: none,
\* or more than the largest utcoffset of TzOffsets (a suspended process, a
\* stepped clock).  A shorter time gives no result that a single reading
\* between the two does not give.
MaxTzOffset == CHOOSE z \in TzOffsets : \A y \in TzOffsets : y <= z
VerifyGaps == {0, MaxTzOffset * TicksPerSec + 1}

VerifyToken(token, token_type, gap) ==
    LET r == verify_token(token, token_type, clock, clock + gap) IN
    /\ last' = [Idle EXCEPT !.op = "verify_token", !.token = token,
                            !.expected = token_type,
                            !.now = clock, !.now2 = clock + gap,
                            !.status = r.status, !.detail = r.detail,
                            !.payload = r.payload]
    /\ Elapse(gap)
    /\ UNCHANGED <<env, issued, pair, sess>>

-----------------------------------------------------------------------------
(* deps.py *)

\* User Directory: db.query(User).filter(User.id == user_id).first()
ActiveUsers == {1}
InactiveUsers == {2}

\* int(token_data.sub)
IsIntString(s) == s \in {"1", "2", "3", "0", "-1"}
int(s) == CASE s = "1" -> 1 [] s = "2" -> 2 [] s = "3" -> 3
            [] s = "0" -> 0 [] s = "-1" -> 0 - 1

\* TokenPayload(**payload): a model with an optional sub; other keys of the
\* payload are ignored.
TokenPayload(payload) == [sub |-> payload.sub]

\* oauth2_scheme = OAuth2PasswordBearer(tokenUrl=...): auto_error is left at
\* its default, so a request without a bearer credential is answered 401
\* before the dependant runs.
oauth2_scheme_ok(header) == header # NoToken

DepResult(st, det, u, lk) == [status |-> st, detail |-> det, user |-> u, lookup |-> lk]

credentials_exception(lk) ==
    DepResult(HTTP_401_UNAUTHORIZED, "Could not validate credentials", None, lk)

\* An exception of db.query(...) is caught by nobody in deps.py; the
\* registered handlers answer it with 500.
database_error(lk) ==
    DepResult(HTTP_500_INTERNAL_SERVER_ERROR, "Database error occurred", None, lk)

not_authenticated ==
    DepResult(HTTP_401_UNAUTHORIZED, "Not authenticated", None, None)

get_current_user(token, dbOk, now) ==
    IF ~jwt_decode_ok(token, settings_SECRET_KEY, ALGORITHM, now)
    THEN credentials_exception(None)
    ELSE LET token_data == TokenPayload(token.payload) IN
         IF token_data.sub = Absent THEN credentials_exception(None)
         ELSE IF ~IsIntString(token_data.sub) THEN credentials_exception(None)
         ELSE LET user_id == int(token_data.sub) IN
              IF ~dbOk THEN database_error(Some(user_id))
              ELSE IF user_id \notin ActiveUsers \cup InactiveUsers
              THEN credentials_exception(Some(user_id))
              ELSE IF user_id \notin ActiveUsers
              THEN DepResult(HTTP_403_FORBIDDEN, "Inactive user", None, Some(user_id))
              ELSE DepResult(HTTP_200_OK, "", Some(user_id), Some(user_id))

\* `not token` holds of None and of the empty string.
get_optional_current_user(token, dbOk, now) ==
    IF token \in {NoToken, EmptyToken}
    THEN DepResult(HTTP_200_OK, "", None, None)
    ELSE IF ~jwt_decode_ok(token, settings_SECRET_KEY, ALGORITHM, now)
    THEN DepResult(HTTP_200_OK, "", None, None)
    ELSE LET token_data == TokenPayload(token.payload) IN
         IF token_data.sub = Absent THEN DepResult(HTTP_200_OK, "", None, None)
         ELSE IF ~IsIntString(token_data.sub) THEN DepResult(HTTP_200_OK, "", None, None)
         ELSE LET user_id == int(token_data.sub) IN
              IF ~dbOk THEN database_error(Some(user_id))
              ELSE IF user_id \notin ActiveUsers
              THEN DepResult(HTTP_200_OK, "", None, Some(user_id))
              ELSE DepResult(HTTP_200_OK, "", Some(user_id), Some(user_id))

\* What a request carries: no bearer credential, or a token string.
Headers == {NoToken} \cup Presentable

GetCurrentUser(header, dbOk) ==
    LET r == IF oauth2_scheme_ok(header)
             THEN get_current_user(header, dbOk, clock)
             ELSE not_authenticated IN
    /\ DepsImported
    /\ last' = [Idle EXCEPT !.op = "get_current_user", !.token = header,
                            !.now = clock, !.now2 = clock,
                            !.status = r.status,
                            !.detail = r.detail, !.user = r.user,
                            !.lookup = r.lookup]
    /\ UNCHANGED <<clock, advances, env, issued, pair, sess>>

GetOptionalCurrentUser(header, dbOk) ==
    LET r == IF oauth2_scheme_ok(header)
             THEN get_optional_current_user(header, dbOk, clock)
             ELSE not_authenticated IN
    /\ DepsImported
    /\ last' = [Idle EXCEPT !.op = "get_optional_current_user", !.token = header,
                            !.now = clock, !.now2 = clock,
                            !.status = r.status,
                            !.detail = r.detail, !.user = r.user,
                            !.lookup = r.lookup]
    /\ UNCHANGED <<clock, advances, env, issued, pair, sess>>

-----------------------------------------------------------------------------
(* The request scoped session (app/core/database.py) *)

\* How an awaited call on the session ends: it returns, raises an Exception,
\* or the task is cancelled while it waits (CancelledError, a BaseException).
AwaitOutcomes == {"ok", "error", "cancel"}

tokens == <<clock, advances, env, issued, last, pair>>

\* What close() does to the session: the transaction still in progress is
\* ended without a commit, the connection goes back to the pool.
closed_session(s) ==
    [s EXCEPT !.closed = TRUE,
              !.tx = IF @ = "active" THEN "rolled_back" ELSE @]

\* async with async_session_maker() as session: try: yield session
Enter(r) ==
    /\ DatabaseImported
    /\ sess[r].pc = "idle"
    /\ sess' = [sess EXCEPT ![r] = [@ EXCEPT !.pc = "yielded", !.tx = "active"]]
    /\ UNCHANGED tokens

\* An exception of the consumer thrown in at the yield goes past the except
\* clause straight to the finally block.
ConsumerRaises_no_rollback(r) ==
    /\ sess[r].pc = "yielded"
    /\ sess' = [sess EXCEPT ![r] = [@ EXCEPT !.consumer = "raised",
                                             !.pending = "error",
                                             !.pc = "closing"]]
    /\ UNCHANGED tokens

\* The consumer finished: the generator is resumed after the yield.
ConsumerReturns(r) ==
    /\ sess[r].pc = "yielded"
    /\ sess' = [sess EXCEPT ![r] = [@ EXCEPT !.consumer = "returned",
                                             !.pc = "committing"]]
    /\ UNCHANGED tokens

\* The consumer raised an Exception: it is thrown in at the yield and caught
\* by `except Exception`.
ConsumerRaises(r) ==
    /\ sess[r].pc = "yielded"
    /\ sess' = [sess EXCEPT ![r] = [@ EXCEPT !.consumer = "raised",
                                             !.pending = "error",
                                             !.pc = "rolling_back"]]
    /\ UNCHANGED tokens

\* The request was cancelled (or the generator closed) while the consumer
\* held the session: CancelledError and GeneratorExit are no Exception, so
\* the except clause does not catch them and the finally block runs next.
ConsumerCancelled(r) ==
    /\ sess[r].pc = "yielded"
    /\ sess' = [sess EXCEPT ![r] = [@ EXCEPT !.consumer = "cancelled",
                                             !.pending = "cancel",
                                             !.pc = "closing"]]
    /\ UNCHANGED tokens

\* await session.commit().  When it does not return, the COMMIT may or may
\* not have reached the database (landed).
Commit(r, outcome, landed) ==
    /\ sess[r].pc = "committing"
    /\ outcome = "ok" => landed
    /\ sess' = [sess EXCEPT ![r] =
                  [@ EXCEPT !.commits = @ + 1,
                            !.commit = outcome,
                            !.tx = IF landed THEN "committed" ELSE @,
                            !.pending = IF outcome = "ok" THEN "none" ELSE outcome,
                            !.pc = IF outcome = "error" THEN "rolling_back"
                                                        ELSE "closing"]]
    /\ UNCHANGED tokens

\* except Exception: await session.rollback(); raise
Rollback(r, outcome) ==
    /\ sess[r].pc = "rolling_back"
    /\ sess' = [sess EXCEPT ![r] =
                  [@ EXCEPT !.rollbacks = @ + 1,
                            !.tx = IF outcome = "ok" /\ @ = "active"
                                   THEN "rolled_back" ELSE @,
                            !.pending = IF outcome = "ok" THEN @ ELSE outcome,
                            !.pc = "closing"]]
    /\ UNCHANGED tokens

\* finally: await session.close()
Close(r, outcome) ==
    /\ sess[r].pc = "closing"
    /\ sess' = [sess EXCEPT ![r] =
                  [(IF outcome = "ok" THEN closed_session(@) ELSE @)
                     EXCEPT !.closes = @ + 1,
                            !.pending = IF outcome = "ok" THEN @ ELSE outcome,
                            !.pc = "exiting"]]
    /\ UNCHANGED tokens

\* Leaving the async with block: AsyncSession.__aexit__ starts close() once
\* more as a task and awaits it under asyncio.shield.  The shield protects
\* the task, not the awaiter: when the close returns or raises, the
\* exception in flight or the close's own leaves the generator; when the
\* request is cancelled while it waits, CancelledError leaves the generator
\* at once and the close task runs on.
Exit(r, outcome) ==
    /\ sess[r].pc = "exiting"
    /\ sess' = [sess EXCEPT ![r] =
                  [(IF outcome = "ok" THEN closed_session(@) ELSE @)
                     EXCEPT !.closes = @ + 1,
                            !.pending = "none",
                            !.raised = IF outcome = "ok" THEN sess[r].pending
                                                         ELSE outcome,
                            !.closing = (outcome = "cancel"),
                            !.pc = "done"]]
    /\ UNCHANGED tokens

\* The close task left behind by a cancelled exit finishes: close() has
\* returned or raised, and nobody awaits its result.
CloseTask(r, outcome) ==
    /\ sess[r].closing
    /\ outcome # "cancel"
    /\ sess' = [sess EXCEPT ![r] =
                  [(IF outcome = "ok" THEN closed_session(@) ELSE @)
                     EXCEPT !.closing = FALSE]]
    /\ UNCHANGED tokens

-----------------------------------------------------------------------------
(* Specifications *)

\* The token service on its own: issue and verify, with one key on both
\* sides.  security.py imports neither config.py nor database.py and reads
\* the process environment only, so the fences, DATABASE_URL and API_V1_STR
\* make no difference to it.
InitSecurity ==
    /\ Init
    /\ secretSource = "env"
    /\ fences = "kept"
    /\ databaseUrl = "unset"
    /\ apiPrefix = "unset"
    /\ engine = "sqlalchemy"

Next ==
    \/ \E d \in ClockSteps : Advance(d)
    \/ \E data \in ClaimSets, delta \in Deltas, gap \in ReadGaps :
          CreateAccessToken(data, delta, gap)
    \/ \E data \in ClaimSets, delta \in Deltas, gap \in ReadGaps :
          CreateRefreshToken(data, delta, gap)
    \/ \E token \in Presentable, ty \in {"access", "refresh"}, gap \in VerifyGaps :
          VerifyToken(token, ty, gap)

Spec == InitSecurity /\ [][Next]_vars

\* Issue, then resolve the current user of a request.  The dependencies
\* exist only where app.core.deps can be imported.
\* deps.py does not import database.py.
InitDeps == Init /\ tz = 0 /\ engine = "sqlalchemy"

NextDeps ==
    \/ \E d \in DepsClockSteps : Advance(d)
    \/ \E data \in SubjectClaimSets, delta \in DepsDeltas, gap \in ReadGaps :
          CreateAccessToken(data, delta, gap)
    \/ \E data \in SubjectClaimSets, delta \in DepsDeltas, gap \in ReadGaps :
          CreateRefreshToken(data, delta, gap)
    \/ \E data \in SubjectClaimSets, g1 \in ReadGaps, g2 \in ReadGaps, g3 \in ReadGaps :
          CreateTokenPair(data, g1, g2, g3)
    \/ \E header \in Headers, dbOk \in BOOLEAN : GetCurrentUser(header, dbOk)
    \/ \E header \in Headers, dbOk \in BOOLEAN : GetOptionalCurrentUser(header, dbOk)

SpecDeps == InitDeps /\ [][NextDeps]_vars

\* Token pairs under the lifetimes a deployment may configure:
\* ACCESS_TOKEN_EXPIRE_MINUTES and REFRESH_TOKEN_EXPIRE_DAYS are read from
\* the environment, so the access lifetime may equal or exceed the refresh
\* lifetime.
MinutesPerDay == SecondsPerDay \div SecondsPerMinute
PairAccessMinutesChoices ==
    {ACCESS_TOKEN_EXPIRE_MINUTES,
     REFRESH_TOKEN_EXPIRE_DAYS * MinutesPerDay,
     2 * REFRESH_TOKEN_EXPIRE_DAYS * MinutesPerDay}

InitPair ==
    /\ clock = 0
    /\ advances = 0
    /\ tz \in TzOffsets
    /\ secretSource \in {"env", "unset"}
    /\ fences = "kept"
    /\ databaseUrl = "unset"
    /\ apiPrefix = "unset"
    /\ engine = "sqlalchemy"
    /\ accessMinutes \in PairAccessMinutesChoices
    /\ refreshDays \in RefreshDaysChoices
    /\ issued = NoIssue
    /\ last = Idle
    /\ pair = NoPair
    /\ sess = NoSessions

NextPair ==
    \/ \E d \in DepsClockSteps : Advance(d)
    \/ \E data \in ClaimSets, g1 \in ReadGaps, g2 \in ReadGaps, g3 \in ReadGaps :
          CreateTokenPair(data, g1, g2, g3)
    \/ \E token \in Presentable, ty \in {"access", "refresh"}, gap \in VerifyGaps :
          VerifyToken(token, ty, gap)

SpecPair == InitPair /\ [][NextPair]_vars

\* The sessions of MaxRequests concurrent requests.  get_async_session
\* exists only where app.core.database can be imported: with SQLAlchemy's
\* create_async_engine in no environment, with a stand-in engine where the
\* fences are stripped and the settings load.
InitSession == Init /\ tz = 0

NextSession ==
    \E r \in Requests :
        \/ Enter(r)
        \/ ConsumerReturns(r)
        \/ ConsumerRaises(r)
        \/ ConsumerCancelled(r)
        \/ \E outcome \in AwaitOutcomes, landed \in BOOLEAN : Commit(r, outcome, landed)
        \/ \E outcome \in AwaitOutcomes : Rollback(r, outcome)
        \/ \E outcome \in AwaitOutcomes : Close(r, outcome)
        \/ \E outcome \in AwaitOutcomes : Exit(r, outcome)
        \/ \E outcome \in AwaitOutcomes : CloseTask(r, outcome)

SpecSession == InitSession /\ [][NextSession]_vars

-----------------------------------------------------------------------------
(* Properties of the token service (checked under Spec) *)

CredentialsDetail == "Could not validate credentials"

\* The last operation verified the issued token, expecting type ty.
VerifiedIssued(ty) ==
    /\ last.op = "verify_token"
    /\ issued.token # NoToken
    /\ last.token = issued.token
    /\ last.expected = ty

\* The type create_* gave the issued token.
IssuedType == IF issued.by = "create_access_token" THEN "access" ELSE "refresh"

\* payload has every key of the claim set c, with c's value.
Contains(payload, c) ==
    /\ c.sub # Absent => payload.sub = c.sub
    /\ c.type # Absent => payload.type = c.type
    /\ c.exp # None => payload.exp = c.exp
    /\ c.iat # None => payload.iat = c.iat
    /\ c.role # Absent => payload.role = c.role

\* C1: an access token issued with a lifetime L > 0 and verified as "access"
\* at the instant of issuance verifies, and the payload returned has every
\* key of the caller's claim set with the caller's value.
C1_RoundTrip ==
    ( /\ VerifiedIssued("access")
      /\ issued.by = "create_access_token"
      /\ issued.expires_delta # None
      /\ issued.expires_delta[1] > 0
      /\ last.now = issued.at
      /\ last.now2 = issued.at )
    => ( /\ last.status = HTTP_200_OK
         /\ Contains(last.payload, issued.data) )

\* C2: verifying a token of create_refresh_token as "access", or a token of
\* create_access_token as "refresh", fails, whenever it is done and whatever
\* claims (a type key included) the caller passed.
C2_NoTypeConfusion ==
    ( /\ issued.token # NoToken
      /\ VerifiedIssued(last.expected)
      /\ last.expected # IssuedType )
    => last.status # HTTP_200_OK

\* A refresh token whose caller asked for type "access", unexpired and well
\* signed, was presented as an access token and refused for its type.
C2_Witness ==
    /\ issued.by = "create_refresh_token"
    /\ issued.data.type = "access"
    /\ VerifiedIssued("access")
    /\ verify_token(issued.token, "refresh", last.now, last.now2).status = HTTP_200_OK
    /\ last.status = HTTP_401_UNAUTHORIZED
    /\ last.detail = "Invalid token type. Expected access"

\* C3: a verification of the issued token with its own type made exactly
\* when the clock reads exp (= iat + L) is refused: the boundary belongs to
\* the failing side.
C3_RefusedAtExpiry ==
    ( /\ VerifiedIssued(IssuedType)
      /\ Truthy(issued.expires_delta)
      /\ last.now = issued.at + issued.expires_delta[1]
      /\ last.now = issued.token.payload.exp[1] * TicksPerSec
      /\ last.now2 = last.now )
    => last.status # HTTP_200_OK

\* C5: every refusal of verify_token carries status 401 and the one generic
\* detail, whatever its cause.
C5_OneError ==
    (last.op = "verify_token" /\ last.status # HTTP_200_OK)
    => (last.status = HTTP_401_UNAUTHORIZED /\ last.detail = CredentialsDetail)

\* C6: an access token issued with an explicit lifetime of 0 seconds has exp
\* equal to its issue time, and verifying it one second later fails.
C6_ZeroLifetime ==
    (issued.by = "create_access_token" /\ issued.expires_delta = Some(0))
    => ( /\ issued.token.payload.exp = Some(Timestamp(issued.at))
         /\ ( (VerifiedIssued("access") /\ last.now = issued.at + TicksPerSec)
              => last.status # HTTP_200_OK ) )

-----------------------------------------------------------------------------
(* Properties of the resolution of the current user (checked under SpecDeps) *)

\* The signature of token verifies under the key and algorithm deps.py uses.
SignedOk(token) ==
    /\ token.kind = "jwt"
    /\ token.key = settings_SECRET_KEY
    /\ token.alg = ALGORITHM

\* Expired as the data model defines it: exp is not strictly in the future.
Expired(token, now) ==
    /\ token.payload.exp # None
    /\ token.payload.exp[1] * TicksPerSec <= now

\* sub is missing, is no integer, or is an integer that is not positive.
BadSub(sub) ==
    \/ sub = Absent
    \/ ~IsIntString(sub)
    \/ int(sub) <= 0

\* The directory answered the lookup, if one was made.
DirectoryAnswered == last.status # HTTP_500_INTERNAL_SERVER_ERROR

\* C4: get_current_user never resolves a well signed, unexpired refresh token
\* whose sub names an existing active user to a user: it refuses it with
\* Unauthorized.
C4_RefreshRefused ==
    ( /\ last.op = "get_current_user"
      /\ issued.by = "create_refresh_token"
      /\ last.token = issued.token
      /\ SignedOk(last.token)
      /\ ~Expired(last.token, last.now)
      /\ IsIntString(issued.data.sub)
      /\ int(issued.data.sub) \in ActiveUsers
      /\ DirectoryAnswered )
    => (last.status = HTTP_401_UNAUTHORIZED /\ last.user = None)

\* C7: get_current_user, given an access token of the service whose sub names
\* an inactive user the directory returned, fails with 401.
C7_InactiveUnauthorized ==
    ( /\ last.op = "get_current_user"
      /\ issued.by = "create_access_token"
      /\ last.token = issued.token
      /\ last.lookup # None
      /\ last.lookup[1] \in InactiveUsers
      /\ DirectoryAnswered )
    => last.status = HTTP_401_UNAUTHORIZED

\* C8: get_optional_current_user, given any token string, never fails, and
\* returns a user only for a valid token of an active user.
C8_OptionalNeverFails ==
    (last.op = "get_optional_current_user" /\ last.token # NoToken)
    => ( /\ last.status = HTTP_200_OK
         /\ last.user # None =>
              (SignedOk(last.token) /\ last.user[1] \in ActiveUsers) )

\* C9: get_current_user refuses a well signed token whose sub is missing,
\* unparsable, zero or negative with the credentials error, and looks no user
\* up for it.
C9_BadSubNoLookup ==
    ( /\ last.op = "get_current_user"
      /\ SignedOk(last.token)
      /\ BadSub(last.token.payload.sub) )
    => ( /\ last.status = HTTP_401_UNAUTHORIZED
         /\ last.detail = CredentialsDetail
         /\ last.lookup = None )

\* C10: neither dependency looks a user up for a token whose signature is
\* invalid or which is expired.
C10_NoLookupUnlessChecked ==
    ( /\ last.op \in {"get_current_user", "get_optional_current_user"}
      /\ last.lookup # None )
    => (SignedOk(last.token) /\ ~Expired(last.token, last.now))

-----------------------------------------------------------------------------
(* Failure is terminal (checked under Spec) *)

\* C12: the clock never runs backwards, and once verify_token has failed for
\* a token and an expected type, the next verify_token call on the same
\* token and expected type, however far the clock has advanced in between,
\* fails as well: a token never returns to Valid.  (verify_token changes no
\* state, so calls on other tokens in between make no difference.)
C12_FailureIsTerminal ==
    [][ /\ clock' >= clock
        /\ ( ( /\ last.op = "verify_token"
               /\ last.status # HTTP_200_OK
               /\ last'.op = "verify_token"
               /\ last'.token = last.token
               /\ last'.expected = last.expected )
             => last'.status # HTTP_200_OK ) ]_vars

\* The issued token verified at issuance under its own type, the clock has
\* advanced, the token was refused at an earlier instant and has just been
\* refused again.
C12_Witness ==
    /\ VerifiedIssued(IssuedType)
    /\ last.status = HTTP_401_UNAUTHORIZED
    /\ verify_token(issued.token, IssuedType, issued.at, issued.at).status = HTTP_200_OK
    /\ \E t \in issued.at .. last.now - 1 :
          verify_token(issued.token, IssuedType, t, t).status # HTTP_200_OK

-----------------------------------------------------------------------------
(* Properties of token pairs (checked under SpecPair) *)

AccessLifetimeSeconds == accessMinutes * SecondsPerMinute
RefreshLifetimeSeconds == refreshDays * SecondsPerDay

\* The pair answers "bearer" and both tokens carry the caller's sub, the
\* first with type "access" and the second with type "refresh".
PairShape ==
    /\ pair.token_type = "bearer"
    /\ pair.access_token.payload.sub = issued.data.sub
    /\ pair.refresh_token.payload.sub = issued.data.sub
    /\ pair.access_token.payload.type = "access"
    /\ pair.refresh_token.payload.type = "refresh"

\* C11 as stated: under every configured pair of lifetimes the pair answers
\* "bearer", its tokens carry the same sub and the types "access" and
\* "refresh", and their exp values differ.
C11_PairDistinctExp ==
    pair # NoPair =>
        ( /\ PairShape
          /\ pair.access_token.payload.exp # pair.refresh_token.payload.exp )

\* C11 amended: the same, the exp values differing (the access token's being
\* the earlier) whenever the configured access lifetime is shorter than the
\* configured refresh lifetime.
C11_PairShorterAccess ==
    pair # NoPair =>
        ( /\ PairShape
          /\ ( AccessLifetimeSeconds < RefreshLifetimeSeconds =>
                 pair.access_token.payload.exp[1] < pair.refresh_token.payload.exp[1] ) )

\* A pair was issued under the default lifetimes for a caller that asked for
\* type "refresh" itself, the second token made later than the first.
C11_Witness ==
    /\ pair # NoPair
    /\ accessMinutes = ACCESS_TOKEN_EXPIRE_MINUTES
    /\ refreshDays = REFRESH_TOKEN_EXPIRE_DAYS
    /\ issued.data.sub = "1"
    /\ issued.data.type = "refresh"
    /\ clock > issued.at

-----------------------------------------------------------------------------
(* Issuance against resolution (checked under SpecDeps) *)

\* get_current_user has just answered for the access token of the pair
\* create_token_pair issued within the last second.
ResolvedJustIssued ==
    /\ last.op = "get_current_user"
    /\ pair # NoPair
    /\ last.token = pair.access_token
    /\ last.now < issued.at + TicksPerSec

\* C14: however the secret is supplied (process environment, .env file),
\* an access token just issued by create_token_pair with sub the id of an
\* existing active user is resolved by get_current_user to that user:
\* issuance and resolution use the same signing secret and algorithm.
C14_IssuedResolves ==
    ( /\ ResolvedJustIssued
      /\ IsIntString(issued.data.sub)
      /\ int(issued.data.sub) \in ActiveUsers
      /\ DirectoryAnswered )
    => /\ last.status = HTTP_200_OK
       /\ last.user = Some(int(issued.data.sub))

-----------------------------------------------------------------------------
(* Properties of the request scoped session (checked under SpecSession) *)

Done(r) == sess[r].pc = "done"

ConsumerFailed(r) == sess[r].consumer \in {"raised", "cancelled"}

\* C13 as stated: when the generator has finished, on every exit path of the
\* consumer, close() was called exactly once, commit() only if the consumer
\* finished without error, rollback() whenever it did not, and a commit that
\* succeeded was never followed by a rollback unless an error was raised.
C13_ReleasedOnce ==
    \A r \in Requests :
        Done(r) =>
            /\ sess[r].closes = 1
            /\ sess[r].commits > 0 => sess[r].consumer = "returned"
            /\ ConsumerFailed(r) => sess[r].rollbacks > 0
            /\ (sess[r].commit = "ok" /\ sess[r].rollbacks > 0) => sess[r].raised # "none"

\* C13 amended: when the generator has finished, close() was called on every
\* exit path (twice: by the finally block and by the context manager) and a
\* close() that completed left no transaction in progress; commit() was
\* called only if the consumer finished without error; rollback() was called
\* exactly when the consumer or the commit raised an Exception, and then an
\* exception (the error, or a cancellation that arrived later) was raised to
\* the caller; on cancellation neither commit() nor rollback() was called
\* and the cancellation or a later error was raised; a commit that succeeded
\* was never followed by a rollback.  (When the exit itself is cancelled the
\* second close() may still be running when the generator returns.)
C13_Released ==
    \A r \in Requests :
        Done(r) =>
            /\ sess[r].closes = 2
            /\ sess[r].closed => sess[r].tx # "active"
            /\ sess[r].commits > 0 => sess[r].consumer = "returned"
            /\ sess[r].commits <= 1 /\ sess[r].rollbacks <= 1
            /\ sess[r].rollbacks > 0 <=>
                 (sess[r].consumer = "raised" \/ sess[r].commit = "error")
            /\ sess[r].rollbacks > 0 => sess[r].raised # "none"
            /\ sess[r].consumer = "cancelled" =>
                 /\ sess[r].commits = 0
                 /\ sess[r].rollbacks = 0
                 /\ sess[r].raised # "none"
            /\ sess[r].commit = "ok" => sess[r].rollbacks = 0

\* One request was cancelled while its consumer held the session and its
\* session was closed without a rollback() call, while the consumer of
\* another request raised and its session was rolled back and closed.
C13_Witness ==
    \E r, q \in Requests :
        /\ Done(r) /\ Done(q)
        /\ sess[r].consumer = "cancelled"
        /\ sess[r].closed
        /\ sess[r].tx = "rolled_back"
        /\ sess[r].raised = "cancel"
        /\ sess[q].consumer = "raised"
        /\ sess[q].rollbacks = 1
        /\ sess[q].closed
        /\ sess[q].raised = "error"

====
